---- MODULE Spec2Model ----
(***************************************************************************)
(* Model of daikibo-iiot-integration/main.py: the timestamp normalizer     *)
(* (iso_to_milliseconds), the two schema adapters                          *)
(* (convert_format_1_to_unified, convert_format_2_to_unified), the merge   *)
(* stage (combine_and_sort_data) and the run of main().                    *)
(*                                                                         *)
(* Representation of Python values.  A JSON/Python value is a record       *)
(*   [t, hi, lo, s]  with t its type tag.                                  *)
(*   t = "int"   : the integer hi * 1000 + lo, 0 <= lo < 1000.  TLC's      *)
(*                 integers are 32 bits wide and epoch milliseconds are    *)
(*                 not, so an integer is kept as (whole thousands, rest):  *)
(*                 1697380200000 is IntV(1697380200, 0).                   *)
(*   t = "float" : the decimal hi + lo / 1000 (25.5 is FloatV(25, 500)).   *)
(*   t = "str"   : the text s, a sequence of one-character strings.        *)
(*   t = "null"  : None / JSON null.                                       *)
(*   t = "absent": no value: the key is not in the dict.                   *)
(***************************************************************************)
EXTENDS Integers, Sequences, FiniteSets

VARIABLES pc, tz, files, format1_data, format2_data, unified_data1,
          unified_data2, final_data, output, console, raised, calls,
          iso_timestamp, millisecond_timestamp

vars == <<pc, tz, files, format1_data, format2_data, unified_data1,
          unified_data2, final_data, output, console, raised, calls,
          iso_timestamp, millisecond_timestamp>>

----------------------------------------------------------------------------
(* Python values *)

IntV(hi, lo) == [t |-> "int", hi |-> hi, lo |-> lo, s |-> <<>>]

FloatV(hi, lo) == [t |-> "float", hi |-> hi, lo |-> lo, s |-> <<>>]

StrV(s) == [t |-> "str", hi |-> 0, lo |-> 0, s |-> s]

NullV == [t |-> "null", hi |-> 0, lo |-> 0, s |-> <<>>]

Absent == [t |-> "absent", hi |-> 0, lo |-> 0, s |-> <<>>]

\* None, or a list, as the value of a variable of main
PyNone == [isNone |-> TRUE, items |-> <<>>]

PyList(items) == [isNone |-> FALSE, items |-> items]

\* what a call gives: a returned value, or the exception it raises
Return(v) == [exc |-> "", val |-> v]

Raise(e) == [exc |-> e, val |-> NullV]

\* "record.get(key) or default": the default also for a null
get_or_default(record, key, default) ==
    IF record[key] \in {Absent, NullV} THEN default ELSE record[key]

\* dict.get(key, default): the default exactly when the key is absent
Get(record, key, default) ==
    IF record[key] = Absent THEN default ELSE record[key]

----------------------------------------------------------------------------
(* Text *)

DigitChars == <<"0", "1", "2", "3", "4", "5", "6", "7", "8", "9">>

IsDigit(c) == \E i \in 1..Len(DigitChars) : DigitChars[i] = c

DigitVal(c) == (CHOOSE i \in 1..Len(DigitChars) : DigitChars[i] = c) - 1

\* the slice s[from : from + n] (1-based from), defined when it lies in s
Slice(s, from, n) == SubSeq(s, from, from + n - 1)

AllDigits(s) == \A i \in 1..Len(s) : IsDigit(s[i])

RECURSIVE Number(_)
Number(s) ==
    IF s = <<>> THEN 0 ELSE Number(SubSeq(s, 1, Len(s) - 1)) * 10 + DigitVal(s[Len(s)])

\* the occurrences of old dropped, whatever new is
RECURSIVE replace_dropping(_, _, _)
replace_dropping(s, old, new) ==
    IF s = <<>> THEN <<>>
    ELSE (IF Head(s) = old THEN <<>> ELSE <<Head(s)>>) \o replace_dropping(Tail(s), old, new)

\* str.replace(old, new) for a one-character old: every occurrence
RECURSIVE replace(_, _, _)
replace(s, old, new) ==
    IF s = <<>> THEN <<>>
    ELSE (IF Head(s) = old THEN new ELSE <<Head(s)>>) \o replace(Tail(s), old, new)

UtcOffsetText == <<"+", "0", "0", ":", "0", "0">>

----------------------------------------------------------------------------
(* datetime.fromisoformat (CPython 3.11) on the extended format            *)
(*   YYYY-MM-DD [ sep HH:MM:SS [ .fff ] [ (+|-)HH:MM ] ]                   *)
(* and datetime.timestamp().  A text outside this format is rejected here; *)
(* the texts of the model are ones CPython rejects or accepts alike.       *)

IsLeap(y) == (y % 4 = 0) /\ ((y % 100 # 0) \/ (y % 400 = 0))

DaysInMonth(y, m) ==
    IF m = 2 THEN (IF IsLeap(y) THEN 29 ELSE 28)
    ELSE IF m \in {4, 6, 9, 11} THEN 30 ELSE 31

RECURSIVE DaysBeforeMonth(_, _)
DaysBeforeMonth(y, m) ==
    IF m = 1 THEN 0 ELSE DaysBeforeMonth(y, m - 1) + DaysInMonth(y, m - 1)

\* date.toordinal(): 1 for 0001-01-01
Ordinal(y, m, d) ==
    LET p == y - 1
    IN  p * 365 + (p \div 4) - (p \div 100) + (p \div 400) + DaysBeforeMonth(y, m) + d

Invalid == [ok |-> FALSE, ord |-> 0, sec |-> 0, ms |-> 0, aware |-> FALSE, off |-> 0]

ParseDate(s) ==
    IF Len(s) = 10 /\ s[5] = "-" /\ s[8] = "-"
       /\ AllDigits(Slice(s, 1, 4)) /\ AllDigits(Slice(s, 6, 2)) /\ AllDigits(Slice(s, 9, 2))
    THEN LET y == Number(Slice(s, 1, 4))
             m == Number(Slice(s, 6, 2))
             d == Number(Slice(s, 9, 2))
         IN  IF y >= 1 /\ m \in 1..12 /\ d >= 1 /\ d <= DaysInMonth(y, m)
             THEN [ok |-> TRUE, ord |-> Ordinal(y, m, d)]
             ELSE [ok |-> FALSE, ord |-> 0]
    ELSE [ok |-> FALSE, ord |-> 0]

\* HH:MM:SS, optionally followed by .fff
ParseClock(s) ==
    IF Len(s) \in {8, 12} /\ s[3] = ":" /\ s[6] = ":"
       /\ AllDigits(Slice(s, 1, 2)) /\ AllDigits(Slice(s, 4, 2)) /\ AllDigits(Slice(s, 7, 2))
       /\ (Len(s) = 12 => (s[9] = "." /\ AllDigits(Slice(s, 10, 3))))
    THEN LET h  == Number(Slice(s, 1, 2))
             mi == Number(Slice(s, 4, 2))
             se == Number(Slice(s, 7, 2))
         IN  IF h <= 23 /\ mi <= 59 /\ se <= 59
             THEN [ok |-> TRUE, sec |-> h * 3600 + mi * 60 + se,
                   ms |-> IF Len(s) = 12 THEN Number(Slice(s, 10, 3)) ELSE 0]
             ELSE [ok |-> FALSE, sec |-> 0, ms |-> 0]
    ELSE [ok |-> FALSE, sec |-> 0, ms |-> 0]

\* (+|-)HH:MM, the offset in seconds east of UTC
ParseOffset(s) ==
    IF Len(s) = 6 /\ s[1] \in {"+", "-"} /\ s[4] = ":"
       /\ AllDigits(Slice(s, 2, 2)) /\ AllDigits(Slice(s, 5, 2))
    THEN LET h  == Number(Slice(s, 2, 2))
             mi == Number(Slice(s, 5, 2))
         IN  IF h <= 23 /\ mi <= 59
             THEN [ok |-> TRUE,
                   off |-> (IF s[1] = "-" THEN -1 ELSE 1) * (h * 3600 + mi * 60)]
             ELSE [ok |-> FALSE, off |-> 0]
    ELSE [ok |-> FALSE, off |-> 0]

\* the position of the first + or - of s, or 0
SignPos(s) ==
    IF \E i \in 1..Len(s) : s[i] \in {"+", "-"}
    THEN CHOOSE i \in 1..Len(s) :
            /\ s[i] \in {"+", "-"}
            /\ \A j \in 1..(i - 1) : s[j] \notin {"+", "-"}
    ELSE 0

ParseTime(s) ==
    LET p     == SignPos(s)
        clock == ParseClock(IF p = 0 THEN s ELSE SubSeq(s, 1, p - 1))
        zone  == IF p = 0 THEN [ok |-> TRUE, off |-> 0]
                 ELSE ParseOffset(SubSeq(s, p, Len(s)))
    IN  IF clock.ok /\ zone.ok
        THEN [ok |-> TRUE, sec |-> clock.sec, ms |-> clock.ms,
              aware |-> p # 0, off |-> zone.off]
        ELSE [ok |-> FALSE, sec |-> 0, ms |-> 0, aware |-> FALSE, off |-> 0]

fromisoformat(s) ==
    IF Len(s) < 10 THEN Invalid
    ELSE LET date == ParseDate(Slice(s, 1, 10))
         IN  IF ~date.ok THEN Invalid
             ELSE IF Len(s) = 10
                  THEN [ok |-> TRUE, ord |-> date.ord, sec |-> 0, ms |-> 0,
                        aware |-> FALSE, off |-> 0]
             ELSE IF Len(s) = 11 THEN Invalid
             ELSE LET time == ParseTime(SubSeq(s, 12, Len(s)))
                  IN  IF ~time.ok THEN Invalid
                      ELSE [ok |-> TRUE, ord |-> date.ord, sec |-> time.sec,
                            ms |-> time.ms, aware |-> time.aware, off |-> time.off]

\* n / d rounded to the nearest integer, ties to even (IEEE 754 rounding)
RoundHalfEven(n, d) ==
    LET q == n \div d
        r == n % d
    IN  IF 2 * r > d \/ (2 * r = d /\ q % 2 = 1) THEN q + 1 ELSE q

\* Whole seconds since the epoch: an aware datetime by its own offset, a
\* naive one as local time of the process (localOffset seconds east of UTC).
EpochSeconds(dt, localOffset) ==
    (dt.ord - 719163) * 86400 + dt.sec - (IF dt.aware THEN dt.off ELSE localOffset)

\* dt.timestamp(): a double.  For 2^40 <= seconds * 1000 < 2^41 (the years
\* 2004 to 2038) a double of that size is a multiple of 2^-22: the result is
\* seconds + frac22 / 2^22.
timestamp(dt, localOffset) ==
    [seconds |-> EpochSeconds(dt, localOffset),
     frac22  |-> RoundHalfEven(dt.ms * 524288, 125)]

\* int(x * 1000): the product is a double, a multiple of 2^-12, truncated
int_times_1000(x) ==
    IntV(x.seconds, RoundHalfEven(x.frac22 * 125, 128) \div 4096)

\* iso_to_milliseconds: the value returned (None is NullV), or the exception
\* that leaves the function.  Only ValueError is caught.
iso_to_milliseconds(iso, localOffset) ==
    IF iso.t # "str" THEN Raise("AttributeError")
    ELSE LET dt == fromisoformat(replace(iso.s, "Z", UtcOffsetText))
         IN  IF dt.ok THEN Return(int_times_1000(timestamp(dt, localOffset)))
             ELSE Return(NullV)

----------------------------------------------------------------------------
(* The schema adapters *)

EmptyText == StrV(<<>>)

UnknownText == StrV(<<"u", "n", "k", "n", "o", "w", "n">>)

\* the unified record of one Format-1 record (the dict literal of the loop)
unified_record_1(record) ==
    [deviceId    |-> Get(record, "device_id", EmptyText),
     timestamp   |-> Get(record, "timestamp", IntV(0, 0)),
     temperature |-> Get(record, "temp", FloatV(0, 0)),
     pressure    |-> Get(record, "pressure", FloatV(0, 0)),
     humidity    |-> Get(record, "humidity", FloatV(0, 0)),
     status      |-> Get(record, "status", UnknownText)]

\* "if not data: return []", then one unified record per record
convert_format_1_to_unified(data) ==
    IF data.isNone \/ data.items = <<>> THEN <<>>
    ELSE [i \in 1..Len(data.items) |-> unified_record_1(data.items[i])]

unified_record_2(record, millisecond_timestamp_) ==
    [deviceId    |-> Get(record, "deviceId", EmptyText),
     timestamp   |-> millisecond_timestamp_,
     temperature |-> Get(record, "temperature", FloatV(0, 0)),
     pressure    |-> Get(record, "pressure", FloatV(0, 0)),
     humidity    |-> Get(record, "humidity", FloatV(0, 0)),
     status      |-> Get(record, "status", UnknownText)]

\* what an adapter or the merge gives: the list returned and the lines
\* printed, or the exception that leaves it
Returned(items, printed) == [exc |-> "", items |-> items, printed |-> printed]

Raised(e, printed) == [exc |-> e, items |-> <<>>, printed |-> printed]

Line(msg, n) == [msg |-> msg, n |-> n]

\* the loop with "break" for "continue": it ends at the first record skipped
RECURSIVE format_2_loop_break(_, _, _, _)
format_2_loop_break(records, unified_data, printed, localOffset) ==
    IF records = <<>> THEN Returned(unified_data, printed)
    ELSE LET record == Head(records)
             r == iso_to_milliseconds(Get(record, "timestamp", EmptyText), localOffset)
         IN  IF r.exc # "" THEN Raised(r.exc, printed)
             ELSE IF r.val = NullV
                  THEN Returned(unified_data,
                                Append(printed, Line("Error converting timestamp", 0)))
             ELSE format_2_loop_break(Tail(records),
                                      Append(unified_data, unified_record_2(record, r.val)),
                                      printed, localOffset)

\* the for loop of convert_format_2_to_unified over the records left:
\* a record whose timestamp gives None is skipped (iso_to_milliseconds has
\* printed the error), an exception of iso_to_milliseconds ends the loop
RECURSIVE format_2_loop(_, _, _, _)
format_2_loop(records, unified_data, printed, localOffset) ==
    IF records = <<>> THEN Returned(unified_data, printed)
    ELSE LET record == Head(records)
             r == iso_to_milliseconds(Get(record, "timestamp", EmptyText), localOffset)
         IN  IF r.exc # "" THEN Raised(r.exc, printed)
             ELSE IF r.val = NullV
                  THEN format_2_loop(Tail(records), unified_data,
                                     Append(printed, Line("Error converting timestamp", 0)),
                                     localOffset)
             ELSE format_2_loop(Tail(records),
                                Append(unified_data, unified_record_2(record, r.val)),
                                printed, localOffset)

convert_format_2_to_unified(data, localOffset) ==
    IF data.isNone \/ data.items = <<>> THEN Returned(<<>>, <<>>)
    ELSE format_2_loop(data.items, <<>>, <<>>, localOffset)

----------------------------------------------------------------------------
(* The merge stage *)

\* the comparison reversed: a descending sort
key_greater(x, y) ==
    \/ x.timestamp.hi > y.timestamp.hi
    \/ (x.timestamp.hi = y.timestamp.hi /\ x.timestamp.lo > y.timestamp.lo)

\* x['timestamp'] < y['timestamp'] on integers
key_less(x, y) ==
    \/ x.timestamp.hi < y.timestamp.hi
    \/ (x.timestamp.hi = y.timestamp.hi /\ x.timestamp.lo < y.timestamp.lo)

\* x put before the elements of equal key: a sort that is not stable
insert_before_equal(list, x) ==
    LET after == { i \in 1..Len(list) :
                     \/ x.timestamp.hi < list[i].timestamp.hi
                     \/ (x.timestamp.hi = list[i].timestamp.hi
                         /\ x.timestamp.lo <= list[i].timestamp.lo) }
        k     == IF after = {} THEN Len(list) + 1
                 ELSE CHOOSE i \in after : \A j \in after : i <= j
    IN  SubSeq(list, 1, k - 1) \o <<x>> \o SubSeq(list, k, Len(list))

\* x left out when the list holds an equal record: a merge that deduplicates
insert_unless_present(list, x) ==
    IF \E i \in 1..Len(list) : list[i] = x THEN list
    ELSE LET after == { i \in 1..Len(list) :
                          \/ x.timestamp.hi < list[i].timestamp.hi
                          \/ (x.timestamp.hi = list[i].timestamp.hi
                              /\ x.timestamp.lo < list[i].timestamp.lo) }
             k     == IF after = {} THEN Len(list) + 1
                      ELSE CHOOSE i \in after : \A j \in after : i <= j
         IN  SubSeq(list, 1, k - 1) \o <<x>> \o SubSeq(list, k, Len(list))

\* x put into the sorted list: after every element that is not greater
insert_sorted(list, x) ==
    LET after == { i \in 1..Len(list) : key_less(x, list[i]) }
        k     == IF after = {} THEN Len(list) + 1
                 ELSE CHOOSE i \in after : \A j \in after : i <= j
    IN  SubSeq(list, 1, k - 1) \o <<x>> \o SubSeq(list, k, Len(list))

RECURSIVE stable_sort(_)
stable_sort(list) ==
    IF list = <<>> THEN <<>>
    ELSE insert_sorted(stable_sort(SubSeq(list, 1, Len(list) - 1)), list[Len(list)])

\* sorted(list, key=timestamp): a stable sort with <.  With two elements or
\* more every key is compared, and a comparison with a None key raises
\* TypeError (the keys of the model are integers or None).
sorted_by_timestamp(list) ==
    IF Len(list) >= 2 /\ \E i \in 1..Len(list) : list[i].timestamp.t # "int"
    THEN Raised("TypeError", <<>>)
    ELSE Returned(stable_sort(list), <<>>)

combine_and_sort_data(data1, data2) ==
    LET combined_data == data1 \o data2
    IN  sorted_by_timestamp(combined_data)

----------------------------------------------------------------------------
(* load_json_file: the file is missing, is not JSON, holds null or a list *)

load_json_file(file) ==
    CASE file.state = "missing" -> [data |-> PyNone, printed |-> <<Line("File not found", 0)>>]
      [] file.state = "invalid" -> [data |-> PyNone, printed |-> <<Line("Invalid JSON", 0)>>]
      [] file.state = "null"    -> [data |-> PyNone, printed |-> <<>>]
      [] OTHER                  -> [data |-> PyList(file.items), printed |-> <<>>]

----------------------------------------------------------------------------
(* Inputs of the model *)

\* the local zone of the process, in seconds east of UTC: UTC, Asia/Kolkata,
\* Etc/GMT+4
LocalOffsets == {0, 19800, -14400}

SampleDate == <<"2", "0", "2", "3", "-", "1", "0", "-", "1", "5">>

SampleClock == <<"T", "1", "4", ":", "3", "0", ":", "0", "0">>

DateTexts ==
    { SampleDate,
      <<"2", "0", "2", "4", "-", "0", "2", "-", "2", "9">>,
      <<"2", "0", "2", "3", "-", "0", "2", "-", "2", "9">>,
      <<"2", "0", "2", "3", "-", "1", "3", "-", "1", "5">> }

ClockTexts ==
    { SampleClock,
      <<"T", "2", "3", ":", "5", "9", ":", "5", "9">>,
      <<"T", "2", "5", ":", "0", "0", ":", "0", "0">> }

FractionTexts ==
    { <<>>, <<".", "0", "0", "0">>, <<".", "0", "0", "1">>, <<".", "9", "9", "9">> }

ZoneTexts ==
    { <<>>, <<"Z">>, UtcOffsetText, <<"+", "0", "5", ":", "3", "0">>,
      <<"-", "0", "4", ":", "0", "0">>, <<"Z", "Z">> }

NotIsoText == <<"a", "b", "c">>

OtherTexts == { <<>>, NotIsoText }

TimestampTexts ==
    { d \o c \o f \o z : d \in DateTexts, c \in ClockTexts,
                         f \in FractionTexts, z \in ZoneTexts } \cup OtherTexts

\* "2023-10-15T14:30:00.000Z" and "2023-10-15T14:30:00.000+00:00"
SampleIsoZ == SampleDate \o SampleClock \o <<".", "0", "0", "0", "Z">>

SampleIsoUtc == SampleDate \o SampleClock \o <<".", "0", "0", "0">> \o UtcOffsetText

\* "2023-10-15T14:30:00": neither Z nor an offset
SampleIsoNaive == SampleDate \o SampleClock

\* "2023-10-15T14:30:00.001Z"
SampleIsoMilli == SampleDate \o SampleClock \o <<".", "0", "0", "1", "Z">>

\* "2023-13-15T14:30:00Z": no such month
SampleIsoBadMonth ==
    <<"2", "0", "2", "3", "-", "1", "3", "-", "1", "5">> \o SampleClock \o <<"Z">>

\* what a caller may pass for a timestamp: text, or a JSON null or number
NormalizerInputs ==
    { StrV(x) : x \in TimestampTexts } \cup { NullV, IntV(1697374200, 0) }

NoFile == [state |-> "missing", items |-> <<>>]

NoOutput == [written |-> FALSE, content |-> <<>>]

NoException == [type |-> "", origin |-> ""]

\* the variables of main before main has run
MainIdle ==
    /\ files = [data1 |-> NoFile, data2 |-> NoFile]
    /\ format1_data = PyNone
    /\ format2_data = PyNone
    /\ unified_data1 = <<>>
    /\ unified_data2 = <<>>
    /\ final_data = <<>>
    /\ output = NoOutput
    /\ console = <<>>

NormalizerIdle ==
    /\ iso_timestamp = Absent
    /\ millisecond_timestamp = Absent

----------------------------------------------------------------------------
(* The timestamp normalizer on its own: one call of iso_to_milliseconds *)

InitNorm ==
    /\ pc = "start"
    /\ tz \in LocalOffsets
    /\ iso_timestamp \in NormalizerInputs
    /\ millisecond_timestamp = Absent
    /\ raised = NoException
    /\ calls = {}
    /\ MainIdle

Normalize ==
    /\ pc = "start"
    /\ LET r == iso_to_milliseconds(iso_timestamp, tz)
       IN  /\ millisecond_timestamp' = r.val
           /\ raised' = [type |-> r.exc,
                         origin |-> IF r.exc = "" THEN "" ELSE "iso_to_milliseconds"]
    /\ pc' = "done"
    /\ UNCHANGED <<tz, iso_timestamp, files, format1_data, format2_data,
                   unified_data1, unified_data2, final_data, output, console, calls>>

NextNorm == Normalize

SpecNorm == InitNorm /\ [][NextNorm]_vars

----------------------------------------------------------------------------
(* Records of the two formats *)

MaxLen == 3

MaxMergeLen == 2

MaxRunLen == 2

\* the sequences over S of length at most n
SeqsUpTo(S, n) == UNION { [1..k -> S] : k \in 0..n }

Dev001 == StrV(<<"D", "E", "V", "0", "0", "1">>)

Dev002 == StrV(<<"D", "E", "V", "0", "0", "2">>)

Active == StrV(<<"a", "c", "t", "i", "v", "e">>)

\* sample_format1[0] of run_tests
SampleFormat1 ==
    [device_id |-> Dev001, timestamp |-> IntV(1697374200, 0), temp |-> FloatV(25, 500),
     pressure |-> FloatV(1013, 200), humidity |-> FloatV(60, 0), status |-> Active]

\* sample_format2[0] of run_tests
SampleFormat2 ==
    [deviceId |-> Dev002, timestamp |-> StrV(SampleIsoZ), temperature |-> FloatV(26, 0),
     pressure |-> FloatV(1012, 800), humidity |-> FloatV(58, 500), status |-> Active]

Format1Keys == {"device_id", "timestamp", "temp", "pressure", "humidity", "status"}

Format2Keys == {"deviceId", "timestamp", "temperature", "pressure", "humidity", "status"}

\* Format-1 records: the sample, the sample less one key, the empty dict,
\* every key present and null, a timestamp that is text
Format1Records ==
    { SampleFormat1 }
    \cup { [SampleFormat1 EXCEPT ![k] = Absent] : k \in Format1Keys }
    \cup { [k \in Format1Keys |-> Absent], [k \in Format1Keys |-> NullV],
           [SampleFormat1 EXCEPT !.timestamp = StrV(NotIsoText)] }

\* the timestamp texts of Format-2 records
Format2Texts ==
    { SampleIsoZ, SampleIsoUtc, SampleIsoNaive, SampleIsoMilli,
      SampleIsoBadMonth, NotIsoText, <<>> }

\* Format-2 records: the sample with each timestamp text or none, the empty
\* dict, every key but the timestamp present and null
Format2Records ==
    { [SampleFormat2 EXCEPT !.timestamp = StrV(x)] : x \in Format2Texts }
    \cup { [SampleFormat2 EXCEPT !.timestamp = Absent],
           [k \in Format2Keys |-> Absent],
           [k \in Format2Keys |-> IF k = "timestamp" THEN StrV(SampleIsoUtc) ELSE NullV] }

\* unified records with integer timestamps 100, 200 and 1697374200000
UnifiedRecords ==
    { [deviceId |-> d, timestamp |-> ts, temperature |-> FloatV(25, 500),
       pressure |-> FloatV(0, 0), humidity |-> FloatV(0, 0), status |-> Active] :
      d \in {Dev001, Dev002}, ts \in {IntV(0, 100), IntV(0, 200), IntV(1697374200, 0)} }

\* the records of a run of main: a timestamp may also be a JSON null
RunFormat1Records ==
    { SampleFormat1, [SampleFormat1 EXCEPT !.timestamp = Absent],
      [SampleFormat1 EXCEPT !.timestamp = NullV] }

RunFormat2Records ==
    { SampleFormat2, [SampleFormat2 EXCEPT !.timestamp = StrV(<<>>)],
      [SampleFormat2 EXCEPT !.timestamp = StrV(SampleIsoNaive)],
      [SampleFormat2 EXCEPT !.timestamp = NullV] }

FileStates(records) ==
    { [state |-> st, items |-> <<>>] : st \in {"missing", "invalid", "null"} }
    \cup { [state |-> "list", items |-> x] : x \in SeqsUpTo(records, MaxRunLen) }

----------------------------------------------------------------------------
(* Adapter 1 on its own: one call of convert_format_1_to_unified *)

InitFormat1 ==
    /\ pc = "start"
    /\ tz \in {0}
    /\ format1_data \in {PyNone} \cup { PyList(x) : x \in SeqsUpTo(Format1Records, MaxLen) }
    /\ files = [data1 |-> NoFile, data2 |-> NoFile]
    /\ format2_data = PyNone
    /\ unified_data1 = <<>>
    /\ unified_data2 = <<>>
    /\ final_data = <<>>
    /\ output = NoOutput
    /\ console = <<>>
    /\ raised = NoException
    /\ calls = {}
    /\ NormalizerIdle

ConvertFormat1 ==
    /\ pc = "start"
    /\ unified_data1' = convert_format_1_to_unified(format1_data)
    /\ pc' = "done"
    /\ UNCHANGED <<tz, files, format1_data, format2_data, unified_data2, final_data,
                   output, console, raised, calls, iso_timestamp, millisecond_timestamp>>

NextFormat1 == ConvertFormat1

SpecFormat1 == InitFormat1 /\ [][NextFormat1]_vars

----------------------------------------------------------------------------
(* Adapter 2 on its own: one call of convert_format_2_to_unified *)

InitFormat2 ==
    /\ pc = "start"
    /\ tz \in LocalOffsets
    /\ format2_data \in {PyNone} \cup { PyList(x) : x \in SeqsUpTo(Format2Records, MaxLen) }
    /\ files = [data1 |-> NoFile, data2 |-> NoFile]
    /\ format1_data = PyNone
    /\ unified_data1 = <<>>
    /\ unified_data2 = <<>>
    /\ final_data = <<>>
    /\ output = NoOutput
    /\ console = <<>>
    /\ raised = NoException
    /\ calls = {}
    /\ NormalizerIdle

ConvertFormat2 ==
    /\ pc = "start"
    /\ LET r == convert_format_2_to_unified(format2_data, tz)
       IN  /\ unified_data2' = r.items
           /\ console' = r.printed
           /\ raised' = [type |-> r.exc,
                         origin |-> IF r.exc = "" THEN "" ELSE "convert_format_2_to_unified"]
    /\ pc' = "done"
    /\ UNCHANGED <<tz, files, format1_data, format2_data, unified_data1, final_data,
                   output, calls, iso_timestamp, millisecond_timestamp>>

NextFormat2 == ConvertFormat2

SpecFormat2 == InitFormat2 /\ [][NextFormat2]_vars

----------------------------------------------------------------------------
(* The merge stage on its own: one call of combine_and_sort_data *)

InitMerge ==
    /\ pc = "start"
    /\ tz \in {0}
    /\ unified_data1 \in SeqsUpTo(UnifiedRecords, MaxMergeLen)
    /\ unified_data2 \in SeqsUpTo(UnifiedRecords, MaxMergeLen)
    /\ files = [data1 |-> NoFile, data2 |-> NoFile]
    /\ format1_data = PyNone
    /\ format2_data = PyNone
    /\ final_data = <<>>
    /\ output = NoOutput
    /\ console = <<>>
    /\ raised = NoException
    /\ calls = {}
    /\ NormalizerIdle

Merge ==
    /\ pc = "start"
    /\ LET r == combine_and_sort_data(unified_data1, unified_data2)
       IN  /\ final_data' = r.items
           /\ raised' = [type |-> r.exc,
                         origin |-> IF r.exc = "" THEN "" ELSE "combine_and_sort_data"]
    /\ pc' = "done"
    /\ UNCHANGED <<tz, files, format1_data, format2_data, unified_data1, unified_data2,
                   output, console, calls, iso_timestamp, millisecond_timestamp>>

NextMerge == Merge

SpecMerge == InitMerge /\ [][NextMerge]_vars

----------------------------------------------------------------------------
(* One run of main().  calls is the history of the stages main has invoked. *)

Init ==
    /\ pc = "load1"
    /\ tz \in LocalOffsets
    /\ files \in [data1 : FileStates(RunFormat1Records), data2 : FileStates(RunFormat2Records)]
    /\ format1_data = PyNone
    /\ format2_data = PyNone
    /\ unified_data1 = <<>>
    /\ unified_data2 = <<>>
    /\ final_data = <<>>
    /\ output = NoOutput
    /\ console = <<>>
    /\ raised = NoException
    /\ calls = {}
    /\ NormalizerIdle

\* format1_data = load_json_file("data-1.json")
Load1 ==
    /\ pc = "load1"
    /\ LET r == load_json_file(files.data1)
       IN  /\ format1_data' = r.data
           /\ console' = console \o r.printed
    /\ pc' = "load2"
    /\ UNCHANGED <<tz, files, format2_data, unified_data1, unified_data2, final_data,
                   output, raised, calls, iso_timestamp, millisecond_timestamp>>

\* format2_data = load_json_file("data-2.json")
Load2 ==
    /\ pc = "load2"
    /\ LET r == load_json_file(files.data2)
       IN  /\ format2_data' = r.data
           /\ console' = console \o r.printed
    /\ pc' = "guard"
    /\ UNCHANGED <<tz, files, format1_data, unified_data1, unified_data2, final_data,
                   output, raised, calls, iso_timestamp, millisecond_timestamp>>

\* the guard with "and" for "or"
inputs_missing_and(data1, data2) == data1.isNone /\ data2.isNone

\* "if format1_data is None or format2_data is None": main returns
inputs_missing(data1, data2) == data1.isNone \/ data2.isNone

\* the guard of main and, past it, the two "Loaded ..." lines; len(None)
\* raises TypeError
Guard ==
    /\ pc = "guard"
    /\ IF inputs_missing(format1_data, format2_data)
       THEN /\ console' = Append(console, Line("Error: Could not load input data files", 0))
            /\ pc' = "returned"
            /\ UNCHANGED raised
       ELSE IF format1_data.isNone \/ format2_data.isNone
       THEN /\ raised' = [type |-> "TypeError", origin |-> "main"]
            /\ pc' = "raised"
            /\ UNCHANGED console
       ELSE /\ console' = console \o <<Line("Loaded from format 1", Len(format1_data.items)),
                                       Line("Loaded from format 2", Len(format2_data.items))>>
            /\ pc' = "convert1"
            /\ UNCHANGED raised
    /\ UNCHANGED <<tz, files, format1_data, format2_data, unified_data1, unified_data2,
                   final_data, output, calls, iso_timestamp, millisecond_timestamp>>

\* unified_data1 = convert_format_1_to_unified(format1_data)
Convert1 ==
    /\ pc = "convert1"
    /\ unified_data1' = convert_format_1_to_unified(format1_data)
    /\ pc' = "convert2"
    /\ calls' = calls \cup {"convert_format_1_to_unified"}
    /\ UNCHANGED <<tz, files, format1_data, format2_data, unified_data2, final_data,
                   output, console, raised, iso_timestamp, millisecond_timestamp>>

\* unified_data2 = convert_format_2_to_unified(format2_data), then the two
\* "Converted ..." lines; an exception of the adapter leaves main
Convert2 ==
    /\ pc = "convert2"
    /\ LET r == convert_format_2_to_unified(format2_data, tz)
       IN  IF r.exc # ""
           THEN /\ raised' = [type |-> r.exc, origin |-> "convert_format_2_to_unified"]
                /\ console' = console \o r.printed
                /\ pc' = "raised"
                /\ UNCHANGED unified_data2
           ELSE /\ unified_data2' = r.items
                /\ console' = console \o r.printed \o
                                  <<Line("Converted from format 1", Len(unified_data1)),
                                    Line("Converted from format 2", Len(r.items))>>
                /\ pc' = "combine"
                /\ UNCHANGED raised
    /\ calls' = calls \cup {"convert_format_2_to_unified"}
    /\ UNCHANGED <<tz, files, format1_data, format2_data, unified_data1, final_data,
                   output, iso_timestamp, millisecond_timestamp>>

\* final_data = combine_and_sort_data(unified_data1, unified_data2)
Combine ==
    /\ pc = "combine"
    /\ LET r == combine_and_sort_data(unified_data1, unified_data2)
       IN  IF r.exc # ""
           THEN /\ raised' = [type |-> r.exc, origin |-> "combine_and_sort_data"]
                /\ pc' = "raised"
                /\ UNCHANGED <<final_data, console>>
           ELSE /\ final_data' = r.items
                /\ console' = Append(console, Line("Combined total", Len(r.items)))
                /\ pc' = "save"
                /\ UNCHANGED raised
    /\ calls' = calls \cup {"combine_and_sort_data"}
    /\ UNCHANGED <<tz, files, format1_data, format2_data, unified_data1, unified_data2,
                   output, iso_timestamp, millisecond_timestamp>>

\* json.dump(final_data, file) in try/except Exception: the write succeeds
\* or fails, and a failure is printed, not raised
Save ==
    /\ pc = "save"
    /\ \E ok \in BOOLEAN :
          IF ok
          THEN /\ output' = [written |-> TRUE, content |-> final_data]
               /\ console' = Append(console, Line("Successfully saved", 0))
          ELSE /\ console' = Append(console, Line("Error saving result", 0))
               /\ UNCHANGED output
    /\ pc' = "display"
    /\ UNCHANGED <<tz, files, format1_data, format2_data, unified_data1, unified_data2,
                   final_data, raised, calls, iso_timestamp, millisecond_timestamp>>

\* the first three records are printed when there is one
Display ==
    /\ pc = "display"
    /\ console' = IF final_data # <<>>
                  THEN Append(console, Line("First 3 unified records",
                                            IF Len(final_data) < 3 THEN Len(final_data) ELSE 3))
                  ELSE console
    /\ pc' = "returned"
    /\ UNCHANGED <<tz, files, format1_data, format2_data, unified_data1, unified_data2,
                   final_data, output, raised, calls, iso_timestamp, millisecond_timestamp>>

Next ==
    \/ Load1
    \/ Load2
    \/ Guard
    \/ Convert1
    \/ Convert2
    \/ Combine
    \/ Save
    \/ Display

Spec == Init /\ [][Next]_vars

----------------------------------------------------------------------------
(* Properties *)

\* the Format-2 timestamp texts that are ISO-8601 date-times, by their
\* construction (not by the parser's answer)
IsoDateTimeTexts == { SampleIsoZ, SampleIsoUtc, SampleIsoNaive, SampleIsoMilli }

HasIsoTimestamp(record) ==
    record.timestamp.t = "str" /\ record.timestamp.s \in IsoDateTimeTexts

\* a.timestamp <= b.timestamp on integers kept as (thousands, rest)
TimestampLeq(a, b) ==
    \/ a.timestamp.hi < b.timestamp.hi
    \/ (a.timestamp.hi = b.timestamp.hi /\ a.timestamp.lo <= b.timestamp.lo)

RECURSIVE WithTimestamp(_, _)
WithTimestamp(list, ts) ==
    IF list = <<>> THEN <<>>
    ELSE (IF Head(list).timestamp = ts THEN <<Head(list)>> ELSE <<>>)
         \o WithTimestamp(Tail(list), ts)

Occurrences(list, x) == Cardinality({ i \in 1..Len(list) : list[i] = x })

C2_NeverFatal ==
    ~(pc = "raised" /\ raised.origin = "convert_format_2_to_unified")

\* C3: every unified record of either adapter, and so every record of the
\* final dataset, carries an integer timestamp, whatever the raw record's
\* timestamp was.
C3_TimestampInteger ==
    /\ \A i \in 1..Len(unified_data1) : unified_data1[i].timestamp.t = "int"
    /\ \A i \in 1..Len(unified_data2) : unified_data2[i].timestamp.t = "int"
    /\ \A i \in 1..Len(final_data) : final_data[i].timestamp.t = "int"

\* C4: combine_and_sort_data returns len(data1) + len(data2) records with
\* timestamps non-decreasing from each to the next.
C4_MergeLengthAndOrder ==
    pc = "done" =>
        /\ raised.type = ""
        /\ Len(final_data) = Len(unified_data1) + Len(unified_data2)
        /\ \A i \in 1..(Len(final_data) - 1) : TimestampLeq(final_data[i], final_data[i + 1])

\* C4 witness: [{timestamp: 200}] merged with [{timestamp: 100}] gives
\* [{timestamp: 100}, {timestamp: 200}]
C4_Witness ==
    /\ pc = "done"
    /\ Len(unified_data1) = 1
    /\ Len(unified_data2) = 1
    /\ unified_data1[1].timestamp = IntV(0, 200)
    /\ unified_data2[1].timestamp = IntV(0, 100)
    /\ final_data = unified_data2 \o unified_data1

\* C5: the merge is stable: the records of one timestamp stand in the output
\* in the order they have in data1 + data2.
C5_MergeStable ==
    pc = "done" =>
        \A r \in UnifiedRecords :
            WithTimestamp(final_data, r.timestamp)
                = WithTimestamp(unified_data1 \o unified_data2, r.timestamp)

\* C5 witness: a Format-1 and a Format-2 record of one timestamp that differ,
\* in a merge that moves records
C5_Witness ==
    /\ pc = "done"
    /\ final_data # unified_data1 \o unified_data2
    /\ \E i \in 1..Len(unified_data1), j \in 1..Len(unified_data2) :
          /\ unified_data1[i].timestamp = unified_data2[j].timestamp
          /\ unified_data1[i] # unified_data2[j]

\* C6: convert_format_1_to_unified returns one record per input record, the
\* i-th being the i-th input record mapped field by field, a default standing
\* in exactly when the key is absent; no or empty input gives the empty list.
C6_Format1Mapping ==
    pc = "done" =>
        LET items == format1_data.items
            Field(record, key, default) ==
                IF record[key] = Absent THEN default ELSE record[key]
        IN  /\ (format1_data.isNone => unified_data1 = <<>>)
            /\ Len(unified_data1) = Len(items)
            /\ \A i \in 1..Len(items) :
                  /\ unified_data1[i].deviceId = Field(items[i], "device_id", StrV(<<>>))
                  /\ unified_data1[i].timestamp = Field(items[i], "timestamp", IntV(0, 0))
                  /\ unified_data1[i].temperature = Field(items[i], "temp", FloatV(0, 0))
                  /\ unified_data1[i].pressure = Field(items[i], "pressure", FloatV(0, 0))
                  /\ unified_data1[i].humidity = Field(items[i], "humidity", FloatV(0, 0))
                  /\ unified_data1[i].status
                        = Field(items[i], "status", StrV(<<"u", "n", "k", "n", "o", "w", "n">>))

\* C6 witness: three records converted, one without any key and one with
\* every key present and null
C6_Witness ==
    /\ pc = "done"
    /\ Len(unified_data1) = 3
    /\ \E i, j \in 1..3 :
          /\ format1_data.items[i] = [k \in Format1Keys |-> Absent]
          /\ format1_data.items[j] = [k \in Format1Keys |-> NullV]

\* the date-times ending in Z of the model, less the Z
IsoPrefixes ==
    { SampleDate \o c \o f :
        c \in { SampleClock, <<"T", "2", "3", ":", "5", "9", ":", "5", "9">> },
        f \in FractionTexts }

\* C7 as stated: "2023-10-15T14:30:00.000Z" and
\* "2023-10-15T14:30:00.000+00:00" both give 1697383800000.
C7_SampleValueAsStated ==
    (pc = "done" /\ iso_timestamp \in {StrV(SampleIsoZ), StrV(SampleIsoUtc)})
        => millisecond_timestamp = IntV(1697383800, 0)

\* C7 amended: "2023-10-15T14:30:00.000Z" and
\* "2023-10-15T14:30:00.000+00:00" both give 1697380200000, and an ISO-8601
\* date-time ending in Z gives the integer the same text gives with +00:00
\* for the Z.
C7_SampleValueAndZ ==
    pc = "done" =>
        /\ iso_timestamp \in {StrV(SampleIsoZ), StrV(SampleIsoUtc)}
              => millisecond_timestamp = IntV(1697380200, 0)
        /\ \A p \in IsoPrefixes :
              iso_timestamp = StrV(p \o <<"Z">>)
                  => /\ millisecond_timestamp.t = "int"
                     /\ millisecond_timestamp
                           = iso_to_milliseconds(StrV(p \o UtcOffsetText), tz).val

\* C7 witness: the sample ending in Z normalized, in a zone that is not UTC
C7_Witness ==
    /\ pc = "done"
    /\ tz # 0
    /\ iso_timestamp = StrV(SampleIsoZ)
    /\ millisecond_timestamp = IntV(1697380200, 0)

\* C8: with an input that did not load, main reports the failure and
\* returns, having invoked neither adapter nor the merge and written no
\* output; the output is written only when both inputs loaded.
C8_RefusesWithoutInputs ==
    /\ (pc \notin {"load1", "load2", "guard"}
        /\ (files.data1.state # "list" \/ files.data2.state # "list"))
          => /\ pc = "returned"
             /\ console # <<>>
             /\ console[Len(console)] = Line("Error: Could not load input data files", 0)
             /\ calls = {}
             /\ ~output.written
    /\ output.written => (files.data1.state = "list" /\ files.data2.state = "list")

\* C8 witness: main has returned with data-1.json loaded and data-2.json not
C8_Witness ==
    /\ pc = "returned"
    /\ files.data1.state = "list"
    /\ files.data1.items # <<>>
    /\ files.data2.state = "missing"
    /\ ~output.written

\* C9: the integer iso_to_milliseconds returns for a text is the same in
\* every process environment, whatever the local time zone.
C9_ZoneIndependent ==
    (pc = "done" /\ millisecond_timestamp.t = "int")
        => \A z \in LocalOffsets :
              iso_to_milliseconds(iso_timestamp, z).val = millisecond_timestamp

\* C10: the output of combine_and_sort_data is a permutation of
\* data1 + data2, duplicates kept, and sorting the output again returns it.
C10_MergePermutation ==
    pc = "done" =>
        /\ \A r \in UnifiedRecords :
              Occurrences(final_data, r) = Occurrences(unified_data1 \o unified_data2, r)
        /\ sorted_by_timestamp(final_data) = Returned(final_data, <<>>)

\* C10 witness: a record that occurs twice in data1 + data2, in a merge that
\* moves records
C10_Witness ==
    /\ pc = "done"
    /\ final_data # unified_data1 \o unified_data2
    /\ \E r \in UnifiedRecords : Occurrences(unified_data1 \o unified_data2, r) >= 2

====
